---------------------------- MODULE Spec2Model ----------------------------
(*************************************************************************)
(* Model of the three asset scripts of EtoTHSensorMonitor:               *)
(*   create_screenshots.py  (ScreenshotFitter)   -> SpecShot             *)
(*   create_icons.py        (IconPainter)        -> SpecIcon             *)
(*   create_web_icons.py    (WebIconResizer)     -> SpecWeb              *)
(* The scripts share no state, so each has its own specification; the    *)
(* variables of the other two scripts stay at their idle values.         *)
(* Python's // on integers is floor division, which is \div.             *)
(*************************************************************************)
EXTENDS Integers, Sequences, FiniteSets, TLC

VARIABLES
    \* ---- create_screenshots.py
    entry,          \* "call": resize_image_for_app_store called directly; "main": the CLI run
    pc,             \* position of the run
    image,          \* the input file: [decodable, w, h]
    args,           \* parsed command line: [device, orientation, sample, input]
    attempted,      \* the (device, orientation) pairs the loop has called fit for, in order
    success_count,  \* main's success_count
    error_count,    \* main's error_count
    files,          \* files written to the output directory: [kind, device, orientation, size]
    last,           \* what the latest call of resize_image_for_app_store did
    \* ---- create_icons.py
    icon_entry,     \* "call": create_temperature_icon called directly; "main": the driver
    icon_pc,
    icon_dir_exists,
    icon_size,      \* the size argument of a direct call
    icon_idx,       \* number of icon_specs entries the driver's loop has started
    icon_files,     \* files written: [index, size], index into icon_specs (0: direct call)
    geom,           \* geometry computed by the latest create_temperature_icon call
    \* ---- create_web_icons.py
    web_pc,
    source_dir_exists,
    source_dir,     \* the files of --source-dir: set of [base, ext, size, decodable]
    source_images,  \* main's source_images list
    web_idx,        \* number of source_images processed
    web_success,    \* main's success_count of create_web_icons
    outputs,        \* the output directory: set of [path, src, size]
    log             \* every write made, in order: [path, src, size]

shot_vars == <<entry, pc, image, args, attempted, success_count, error_count, files, last>>
icon_vars == <<icon_entry, icon_pc, icon_dir_exists, icon_size, icon_idx, icon_files, geom>>
web_vars  == <<web_pc, source_dir_exists, source_dir, source_images, web_idx, web_success, outputs, log>>
vars == <<shot_vars, icon_vars, web_vars>>

Max(a, b) == IF a >= b THEN a ELSE b
Min(a, b) == IF a <= b THEN a ELSE b

(*************************************************************************)
(*                        create_screenshots.py                          *)
(*************************************************************************)

\* Bounds of the source image sizes explored.
MaxSmall == 2
Delta == 1

\* SCREENSHOT_SIZES: the keys in dict order, and the size per device/orientation.
DeviceKeys == <<"iPhone_6_7", "iPhone_6_5", "iPhone_5_5", "iPad_Pro_12_9">>
Orientations == <<"portrait", "landscape">>

SeqRange(s) == {s[k] : k \in 1..Len(s)}

SCREENSHOT_SIZES ==
    [d \in SeqRange(DeviceKeys) |->
        CASE d = "iPhone_6_7"    -> [portrait |-> <<1290, 2796>>, landscape |-> <<2796, 1290>>]
          [] d = "iPhone_6_5"    -> [portrait |-> <<1242, 2688>>, landscape |-> <<2688, 1242>>]
          [] d = "iPhone_5_5"    -> [portrait |-> <<1242, 2208>>, landscape |-> <<2208, 1242>>]
          [] d = "iPad_Pro_12_9" -> [portrait |-> <<2048, 2732>>, landscape |-> <<2732, 2048>>]]

TableDims == UNION {{SCREENSHOT_SIZES[d].portrait[1], SCREENSHOT_SIZES[d].portrait[2]} :
                        d \in SeqRange(DeviceKeys)}

\* Arguments a caller can pass: the supported names and one unsupported name each.
DeviceArgs == SeqRange(DeviceKeys) \cup {"iPhone_4"}
OrientArgs == SeqRange(Orientations) \cup {"square"}

\* Source sizes: tiny images, sizes around every table dimension, and twice them.
CallDims == (1..MaxSmall) \cup {t + d : t \in TableDims, d \in (0 - Delta)..Delta}
                \cup {2 * t : t \in TableDims}
MainDims == {MaxSmall, 1242, 2208, 2796 + Delta}

NoImage == [decodable |-> FALSE, w |-> 0, h |-> 0]
ImagesOf(dims) == {[decodable |-> TRUE, w |-> w, h |-> h] : w \in dims, h \in dims}
                     \cup {NoImage}

NoCall == [result |-> "none", device |-> "None", orientation |-> "None",
           opened |-> FALSE, rotated |-> <<0, 0>>, pasted |-> <<0, 0>>,
           paste_at |-> <<0, 0>>, out |-> <<0, 0>>, wrote |-> FALSE,
           propagated |-> FALSE]

\* lines 47-51 reached with an unsupported name: raise ValueError, nothing opened.
\* (variant: the unsupported name is reported and None returned, as for a read failure)
return_none_unsupported(device_type, orientation) ==
    [NoCall EXCEPT !.result = "None", !.device = device_type, !.orientation = orientation]
raise_unsupported(device_type, orientation) ==
    [NoCall EXCEPT !.result = "ValueError", !.device = device_type,
                   !.orientation = orientation]

\* lines 64-73: img.rotate(+-90, expand=True) swaps width and height.
\* (variant: the elif branch for portrait is missing)
rotate_landscape_only(size, orientation) ==
    LET is_landscape == size[1] > size[2] IN
    IF orientation = "landscape" /\ ~is_landscape THEN <<size[2], size[1]>> ELSE size
rotate(size, orientation) ==
    LET is_landscape == size[1] > size[2] IN
    IF orientation = "landscape" /\ ~is_landscape THEN <<size[2], size[1]>>
    ELSE IF orientation = "portrait" /\ is_landscape THEN <<size[2], size[1]>>
    ELSE size

\* line 87: img.thumbnail(target_size).  Pillow's Image.thumbnail: unchanged when the
\* image already fits; otherwise the bound that binds is kept and the other side is
\* round_aspect(...) = max(min(floor, ceil, key = distance of the aspect ratios), 1).
\* The ratios are compared exactly here (cross-multiplied), where Pillow uses floats.
fit_within(size, target) ==
    LET W == size[1]  H == size[2]  x == target[1]  y == target[2] IN
    IF x * H >= W * y
    THEN LET f == (y * W) \div H  r == (y * W) % H
             c == IF r = 0 THEN f ELSE f + 1
             n == IF r <= H - r THEN f ELSE c
         IN <<Max(n, 1), y>>
    ELSE LET f == (x * H) \div W  r == (x * H) % W
             c == IF r = 0 THEN f ELSE f + 1
             n == IF f = 0 THEN f
                  ELSE IF r * c <= (W - r) * f THEN f ELSE c
         IN <<x, Max(n, 1)>>
\* (variant: scale to the bounds even when the image already fits)
thumbnail_always_scales(size, target) == fit_within(size, target)
thumbnail(size, target) ==
    IF target[1] >= size[1] /\ target[2] >= size[2] THEN size
    ELSE fit_within(size, target)

\* line 90: the canvas that is saved.
\* (variant: the canvas takes the size of the resized image)
new_img_cropped(target_size, img_size) == img_size
new_img(target_size, img_size) == target_size

\* lines 93-94
paste_xy(target_size, img_size) ==
    <<(target_size[1] - img_size[1]) \div 2, (target_size[2] - img_size[2]) \div 2>>

\* lines 43-106.  fault = "save": the conversion or the save raises.
resize_image_for_app_store(img, device_type, orientation, fault) ==
    IF device_type \notin DOMAIN SCREENSHOT_SIZES
       \/ orientation \notin {"portrait", "landscape"}
    THEN raise_unsupported(device_type, orientation)
    ELSE
    LET target_size == SCREENSHOT_SIZES[device_type][orientation]
        base == [NoCall EXCEPT !.device = device_type, !.orientation = orientation,
                               !.opened = TRUE]
    IN  IF ~img.decodable THEN [base EXCEPT !.result = "None"]
        ELSE
        LET rotated == rotate(<<img.w, img.h>>, orientation)
            small == thumbnail(rotated, target_size)
            done == [base EXCEPT !.rotated = rotated, !.pasted = small,
                                 !.paste_at = paste_xy(target_size, small),
                                 !.out = new_img(target_size, small)]
        IN  IF fault = "save" THEN [done EXCEPT !.result = "Exception"]
            ELSE [done EXCEPT !.result = "path", !.wrote = TRUE]

OutputFile(r) == [kind |-> "fit", device |-> r.device, orientation |-> r.orientation,
                  size |-> r.out]

\* lines 224-225
target_devices(a) == IF a.device # "None" THEN <<a.device>> ELSE DeviceKeys
target_orientations(a) == IF a.orientation # "None" THEN <<a.orientation>> ELSE Orientations

\* the order of the nested loops of lines 266-267 (and 235-237)
combinations(a) ==
    LET ds == target_devices(a)  os == target_orientations(a) IN
    [k \in 1..(Len(ds) * Len(os)) |->
        <<ds[((k - 1) \div Len(os)) + 1], os[((k - 1) % Len(os)) + 1]>>]

\* lines 270-276: the tally after one combination
\* (variant: an exception is printed but not counted)
tally_ignoring_raise(r, sc, ec) ==
    IF r.result = "path" THEN <<sc + 1, ec>>
    ELSE IF r.result = "None" THEN <<sc, ec + 1>>
    ELSE <<sc, ec>>
tally(r, sc, ec) ==
    IF r.result = "path" THEN <<sc + 1, ec>>
    ELSE <<sc, ec + 1>>

ShotIdle ==
    /\ entry = "idle" /\ pc = "idle" /\ image = NoImage
    /\ args = [device |-> "None", orientation |-> "None", sample |-> FALSE, input |-> "none"]
    /\ attempted = <<>> /\ success_count = 0 /\ error_count = 0
    /\ files = {} /\ last = NoCall

\* A direct call has its three arguments; a run has the parsed command line, whose
\* --device and --orientation are restricted by argparse choices (lines 208-211).
ShotInit ==
    /\ attempted = <<>> /\ success_count = 0 /\ error_count = 0
    /\ files = {} /\ last = NoCall
    /\ pc = "start"
    /\ \/ /\ entry = "call"
          /\ image \in ImagesOf(CallDims)
          /\ args \in [device : DeviceArgs, orientation : OrientArgs,
                       sample : {FALSE}, input : {"exists"}]
       \/ /\ entry = "main"
          /\ args \in [device : SeqRange(DeviceKeys) \cup {"None"},
                       orientation : SeqRange(Orientations) \cup {"None"},
                       sample : BOOLEAN, input : {"none", "missing", "exists"}]
          /\ IF args.input = "exists" /\ ~args.sample
             THEN image \in ImagesOf(MainDims)
             ELSE image = NoImage

\* resize_image_for_app_store called by an importer: an exception reaches the caller.
CallFit ==
    /\ UNCHANGED <<icon_vars, web_vars>>
    /\ entry = "call" /\ pc = "start"
    /\ \E fault \in {"none", "save"} :
         LET r == resize_image_for_app_store(image, args.device, args.orientation, fault) IN
         /\ last = NoCall
         /\ last' = [r EXCEPT !.propagated = (r.result \in {"ValueError", "Exception"})]
         /\ files' = IF r.wrote THEN files \cup {OutputFile(r)} ELSE files
         /\ pc' = IF r.result \in {"ValueError", "Exception"} THEN "raised" ELSE "returned"
    /\ UNCHANGED <<entry, image, args, attempted, success_count, error_count>>

\* lines 228-242: --sample writes one placeholder per combination and returns.
MainSample ==
    /\ UNCHANGED <<icon_vars, web_vars>>
    /\ entry = "main" /\ pc = "start" /\ args.sample
    /\ files' = files \cup
         {[kind |-> "sample", device |-> c[1], orientation |-> c[2],
           size |-> SCREENSHOT_SIZES[c[1]][c[2]]] : c \in SeqRange(combinations(args))}
    /\ pc' = "done"
    /\ UNCHANGED <<entry, image, args, attempted, success_count, error_count, last>>

\* lines 245-247
MainNoInput ==
    /\ UNCHANGED <<icon_vars, web_vars>>
    /\ entry = "main" /\ pc = "start" /\ ~args.sample /\ args.input = "none"
    /\ pc' = "usage"
    /\ UNCHANGED <<entry, image, args, attempted, success_count, error_count, files, last>>

\* lines 250-252
MainMissingFile ==
    /\ UNCHANGED <<icon_vars, web_vars>>
    /\ entry = "main" /\ pc = "start" /\ ~args.sample /\ args.input = "missing"
    /\ pc' = "not_found"
    /\ UNCHANGED <<entry, image, args, attempted, success_count, error_count, files, last>>

\* lines 254-264
MainBegin ==
    /\ UNCHANGED <<icon_vars, web_vars>>
    /\ entry = "main" /\ pc = "start" /\ ~args.sample /\ args.input = "exists"
    /\ success_count' = 0 /\ error_count' = 0
    /\ pc' = "loop"
    /\ UNCHANGED <<entry, image, args, attempted, files, last>>

\* lines 266-276: one iteration of the nested loops
MainCombination ==
    /\ UNCHANGED <<icon_vars, web_vars>>
    /\ entry = "main" /\ pc = "loop"
    /\ Len(attempted) < Len(combinations(args))
    /\ \E fault \in {"none", "save"} :
         LET c == combinations(args)[Len(attempted) + 1]
             r == resize_image_for_app_store(image, c[1], c[2], fault)
             t == tally(r, success_count, error_count)
         IN /\ attempted' = Append(attempted, c)
            /\ last' = r
            /\ files' = IF r.wrote THEN files \cup {OutputFile(r)} ELSE files
            /\ success_count' = t[1]
            /\ error_count' = t[2]
    /\ UNCHANGED <<entry, pc, image, args>>

\* lines 278-281
MainFinish ==
    /\ UNCHANGED <<icon_vars, web_vars>>
    /\ entry = "main" /\ pc = "loop"
    /\ Len(attempted) = Len(combinations(args))
    /\ pc' = "done"
    /\ UNCHANGED <<entry, image, args, attempted, success_count, error_count, files, last>>

\* ---------------------------------------------------------------- claims
Supported(r) == r.device \in DOMAIN SCREENSHOT_SIZES
                  /\ r.orientation \in {"portrait", "landscape"}

\* C1: a successful fit writes an image whose pixel size is exactly the table's
\* target for the device/orientation pair, whatever the source size and whether or
\* not the source was rotated.
C1_OutputIsTargetSize ==
    /\ last.result = "path" =>
          /\ last.out = SCREENSHOT_SIZES[last.device][last.orientation]
          /\ OutputFile(last) \in files
    /\ \A f \in files : f.size = SCREENSHOT_SIZES[f.device][f.orientation]

C1_Witness ==
    /\ last.result = "path"
    /\ last.device = "iPad_Pro_12_9" /\ last.orientation = "landscape"
    /\ last.out = <<2732, 2048>>
    /\ last.rotated = <<image.h, image.w>> /\ image.h > image.w
    /\ last.pasted # last.rotated

\* C2: for a source whose width differs from its height, after the rotation step the
\* image is wider than tall exactly when landscape was requested; it was rotated
\* (sides swapped) exactly when its orientation did not match the request.
C2_RotationMatchesRequest ==
    (last.opened /\ image.decodable /\ image.w # image.h) =>
        /\ (last.rotated[1] > last.rotated[2]) <=> (last.orientation = "landscape")
        /\ IF (image.w > image.h) <=> (last.orientation = "landscape")
           THEN last.rotated = <<image.w, image.h>>
           ELSE last.rotated = <<image.h, image.w>>

C2_Witness ==
    /\ last.opened /\ image.decodable
    /\ image.w > image.h /\ last.orientation = "portrait"
    /\ last.rotated = <<image.h, image.w>>

\* C3: the resize step never upscales: the pasted image is no wider than
\* min(target width, rotated source width) and no taller than min(target height,
\* rotated source height); a source that fits the target keeps its size; the
\* centring offsets are never negative.
C3_NeverUpscales ==
    (last.result \in {"path", "Exception"}) =>
        LET t == SCREENSHOT_SIZES[last.device][last.orientation] IN
        /\ last.pasted[1] >= 1 /\ last.pasted[2] >= 1
        /\ last.pasted[1] <= Min(t[1], last.rotated[1])
        /\ last.pasted[2] <= Min(t[2], last.rotated[2])
        /\ (last.rotated[1] <= t[1] /\ last.rotated[2] <= t[2]) => last.pasted = last.rotated
        /\ last.paste_at[1] >= 0 /\ last.paste_at[2] >= 0
        /\ last.paste_at = <<(t[1] - last.pasted[1]) \div 2, (t[2] - last.pasted[2]) \div 2>>

C3_Witness ==
    /\ last.result = "path"
    /\ last.rotated[1] < SCREENSHOT_SIZES[last.device][last.orientation][1]
    /\ last.rotated[2] < SCREENSHOT_SIZES[last.device][last.orientation][2]
    /\ last.pasted = last.rotated
    /\ last.paste_at[1] > 0 /\ last.paste_at[2] > 0

\* a second case of C3: a source larger than the target is scaled down
C3_DownscaleReached ==
    /\ last.result = "path"
    /\ last.pasted[1] < last.rotated[1] /\ last.pasted[2] < last.rotated[2]

C6_WitnessOrientation ==
    /\ last.result = "ValueError" /\ last.device = "iPhone_6_7"
    /\ last.orientation = "square"

\* C8: in a resize run every combination of the selected devices and orientations
\* is attempted exactly once, in table order, whatever the earlier outcomes; a read
\* failure or an exception counts as one error; at the end success_count +
\* error_count is the number of combinations and success_count is the number of
\* files written.
C8_EveryCombinationOnce ==
    (entry = "main" /\ ~args.sample /\ pc \in {"loop", "done"}) =>
        /\ Len(attempted) <= Len(combinations(args))
        /\ attempted = SubSeq(combinations(args), 1, Len(attempted))
        /\ success_count + error_count = Len(attempted)
        /\ success_count = Cardinality(files)
        /\ pc = "done" => attempted = combinations(args)
        /\ \A j, k \in 1..Len(attempted) : j # k => attempted[j] # attempted[k]

C8_Witness ==
    /\ entry = "main" /\ pc = "done" /\ Len(attempted) = 8
    /\ image.decodable
    /\ error_count = 3 /\ success_count = 5
    /\ last.result = "path"

(*************************************************************************)
(*                           create_icons.py                             *)
(*************************************************************************)
\* Largest size of the direct calls explored (besides the sizes of icon_specs).
MaxIconSize == 128

\* lines 129-151
icon_specs == <<40, 60, 58, 87, 80, 120, 120, 180, 20, 40, 29, 58, 80, 152, 167, 1024>>

IconSizes == (1..MaxIconSize) \cup SeqRange(icon_specs)

\* lines 50-51
thermo_top(center_y, thermo_height) == center_y - thermo_height \div 2
\* (variant: the stem reaches as far below the centre as above it)
thermo_bottom_centred(center_y, thermo_height) == center_y + thermo_height \div 2
thermo_bottom(center_y, thermo_height) == center_y + thermo_height \div 4

\* lines 70-71
\* (variant: no minimum width)
liquid_width_unfloored(thermo_width) == thermo_width - 4
liquid_width(thermo_width) == Max(2, thermo_width - 4)
liquid_height(thermo_height) == Max(4, thermo_height \div 2)

\* line 85
scale_count == 5

\* lines 28-108: every coordinate create_temperature_icon computes from size
icon_geometry(size) ==
    LET margin == size \div 8
        thermo_width == size \div 12
        thermo_height == size \div 2
        bulb_radius == size \div 8
        center_x == size \div 2
        center_y == size \div 2
        t_left == center_x - thermo_width \div 2
        t_right == center_x + thermo_width \div 2
        t_top == thermo_top(center_y, thermo_height)
        t_bottom == thermo_bottom(center_y, thermo_height)
        l_width == liquid_width(thermo_width)
        l_height == liquid_height(thermo_height)
        l_left == center_x - l_width \div 2
        l_right == center_x + l_width \div 2
        l_top == t_bottom - l_height
        l_bottom == t_bottom
    IN  [size |-> size, margin |-> margin, corner_radius |-> size \div 8,
         thermo_width |-> thermo_width, thermo_height |-> thermo_height,
         bulb_radius |-> bulb_radius, center_x |-> center_x, center_y |-> center_y,
         thermo_left |-> t_left, thermo_right |-> t_right,
         thermo_top |-> t_top, thermo_bottom |-> t_bottom,
         bulb_center_y |-> t_bottom + bulb_radius \div 2,
         liquid_left |-> l_left, liquid_right |-> l_right,
         liquid_top |-> l_top, liquid_bottom |-> l_bottom,
         liquid_drawn |-> (l_right > l_left /\ l_bottom > l_top),
         scale_start_x |-> t_right + 2,
         scale_end_x |-> t_right + 2 + size \div 20,
         ticks |-> [i \in 1..scale_count |->
                       t_top + (thermo_height * (i - 1)) \div (scale_count - 1)],
         tick_width |-> Max(1, size \div 200),
         glyph |-> (size >= 60)]

IconIdle ==
    /\ icon_entry = "idle" /\ icon_pc = "idle" /\ icon_dir_exists = FALSE
    /\ icon_size = 0 /\ icon_idx = 0 /\ icon_files = {} /\ geom = <<>>

IconInit ==
    /\ icon_pc = "start" /\ icon_idx = 0 /\ icon_files = {} /\ geom = <<>>
    /\ \/ /\ icon_entry = "call" /\ icon_size \in IconSizes /\ icon_dir_exists = TRUE
       \/ /\ icon_entry = "main" /\ icon_size = 0 /\ icon_dir_exists \in BOOLEAN

\* lines 17-116, called directly.  fault = "save": a draw call or img.save raises;
\* only the glyph drawing (lines 99-112) is inside a try, so the exception leaves
\* the function.
CallPaint ==
    /\ UNCHANGED <<shot_vars, web_vars>>
    /\ icon_entry = "call" /\ icon_pc = "start"
    /\ geom' = icon_geometry(icon_size)
    /\ \E fault \in {"none", "save"} :
         IF fault = "save"
         THEN icon_pc' = "raised" /\ icon_files' = icon_files
         ELSE /\ icon_pc' = "returned"
              /\ icon_files' = icon_files \cup {[index |-> 0, size |-> icon_size]}
    /\ UNCHANGED <<icon_entry, icon_dir_exists, icon_size, icon_idx>>

\* lines 124-126
IconMainNoDir ==
    /\ UNCHANGED <<shot_vars, web_vars>>
    /\ icon_entry = "main" /\ icon_pc = "start" /\ ~icon_dir_exists
    /\ icon_pc' = "no_dir"
    /\ UNCHANGED <<icon_entry, icon_dir_exists, icon_size, icon_idx, icon_files, geom>>

\* lines 153-154
IconMainBegin ==
    /\ UNCHANGED <<shot_vars, web_vars>>
    /\ icon_entry = "main" /\ icon_pc = "start" /\ icon_dir_exists
    /\ icon_pc' = "loop"
    /\ UNCHANGED <<icon_entry, icon_dir_exists, icon_size, icon_idx, icon_files, geom>>

\* lines 157-159: one iteration.  The call is not inside a try: an exception of
\* create_temperature_icon leaves main and ends the run.
IconMainPaint ==
    /\ UNCHANGED <<shot_vars, web_vars>>
    /\ icon_entry = "main" /\ icon_pc = "loop" /\ icon_idx < Len(icon_specs)
    /\ icon_idx' = icon_idx + 1
    /\ geom' = icon_geometry(icon_specs[icon_idx + 1])
    /\ \E fault \in {"none", "save"} :
         IF fault = "save"
         THEN icon_pc' = "crashed" /\ icon_files' = icon_files
         ELSE /\ icon_pc' = "loop"
              /\ icon_files' = icon_files \cup
                    {[index |-> icon_idx + 1, size |-> icon_specs[icon_idx + 1]]}
    /\ UNCHANGED <<icon_entry, icon_dir_exists, icon_size>>

\* lines 161-163
IconMainFinish ==
    /\ UNCHANGED <<shot_vars, web_vars>>
    /\ icon_entry = "main" /\ icon_pc = "loop" /\ icon_idx = Len(icon_specs)
    /\ icon_pc' = "done"
    /\ UNCHANGED <<icon_entry, icon_dir_exists, icon_size, icon_idx, icon_files, geom>>

\* ---------------------------------------------------------------- claims
Painted == geom # <<>>

\* C5: in the driver a failure of the draw or save calls for one table entry is
\* caught and the run continues: the run never ends by the exception, and it ends
\* only after every entry of the 16-entry table has been attempted.
C5_PaintFailureIsCaught ==
    (icon_entry = "main" /\ icon_dir_exists) =>
        /\ icon_pc # "crashed"
        /\ icon_pc \in {"done", "crashed"} => icon_idx = Len(icon_specs)

\* the part of C5 that holds: files written before a failure stay
C5_EarlierEntriesIntact ==
    [][icon_files \subseteq icon_files']_vars

\* C7: for every size >= 1 the liquid-fill rectangle is non-degenerate (right > left
\* and bottom > top), so the guarded draw call is executed.
C7_LiquidNonDegenerate ==
    Painted =>
        /\ geom.liquid_right > geom.liquid_left
        /\ geom.liquid_bottom > geom.liquid_top
        /\ geom.liquid_drawn

C7_Witness ==
    /\ Painted /\ geom.size = 20 /\ geom.thermo_width = 1
    /\ geom.liquid_drawn /\ geom.liquid_right - geom.liquid_left = 2

C7_WitnessSizeOne ==
    Painted /\ geom.size = 1 /\ geom.liquid_drawn

InTable(size) == size \in SeqRange(icon_specs)

\* C9 as stated: for every table size the stem rectangle has height size/2, is
\* centred vertically (top and bottom edges equidistant from the centre row) and
\* horizontally, and the 5 ticks span exactly the stem (first tick at its top edge,
\* last tick at its bottom edge).
C9_StemCentredTicksSpanStem ==
    (Painted /\ InTable(geom.size)) =>
        /\ geom.thermo_bottom - geom.thermo_top = geom.size \div 2
        /\ geom.center_y - geom.thermo_top = geom.thermo_bottom - geom.center_y
        /\ geom.center_x - geom.thermo_left = geom.thermo_right - geom.center_x
        /\ geom.ticks[1] = geom.thermo_top
        /\ geom.ticks[scale_count] = geom.thermo_bottom

\* C9 amended: for every table size the stem rectangle is centred horizontally; its
\* top edge is (size/2)/2 above the centre row and its bottom edge only (size/2)/4
\* below it, so it is shorter than size/2 and not centred vertically; the 5 ticks
\* start at the stem's top edge and span size/2, so the last tick lies below the
\* stem's bottom edge.
C9_StemAndTicksAsDrawn ==
    (Painted /\ InTable(geom.size)) =>
        LET th == geom.size \div 2 IN
        /\ geom.center_x - geom.thermo_left = geom.thermo_right - geom.center_x
        /\ geom.center_y - geom.thermo_top = th \div 2
        /\ geom.thermo_bottom - geom.center_y = th \div 4
        /\ geom.thermo_bottom - geom.thermo_top < th
        /\ geom.thermo_bottom - geom.center_y < geom.center_y - geom.thermo_top
        /\ Len(geom.ticks) = 5
        /\ geom.ticks[1] = geom.thermo_top
        /\ geom.ticks[5] = geom.thermo_top + th
        /\ geom.ticks[5] > geom.thermo_bottom
        /\ \A i \in 1..4 : geom.ticks[i] < geom.ticks[i + 1]

C9_Witness ==
    /\ Painted /\ geom.size = 1024
    /\ geom.thermo_top = 256 /\ geom.thermo_bottom = 640
    /\ geom.ticks[5] = 768

(*************************************************************************)
(*                         create_web_icons.py                           *)
(*************************************************************************)

\* Largest number of files in the source directory.
MaxFiles == 2

Bases == {"a", "b"}
Exts == {".png", ".JPG", ".txt"}
ImageSizes == {<<1024, 1024>>, <<500, 500>>, <<1024, 500>>}

\* str.lower() on the extensions used
lower(ext) == IF ext = ".JPG" THEN ".jpg" ELSE ext

FileOf(base, ext, size, decodable) ==
    [base |-> base, ext |-> ext, size |-> size, decodable |-> decodable]
NamedFiles(base, ext) ==
    {FileOf(base, ext, sz, TRUE) : sz \in ImageSizes} \cup {FileOf(base, ext, <<0, 0>>, FALSE)}
Names == Bases \X Exts

\* directories: at most MaxFiles files, no two with the same name
Directories ==
    UNION {{{f[n] : n \in ns} : f \in [ns -> UNION {NamedFiles(n[1], n[2]) : n \in ns}]} :
              ns \in {x \in SUBSET Names : Cardinality(x) <= MaxFiles}}
WellNamed(dir) ==
    \A f, g \in dir : (f.base = g.base /\ f.ext = g.ext) => f = g

Perms(S) == {p \in [1..Cardinality(S) -> S] : \A i, j \in DOMAIN p : i # j => p[i] # p[j]}

\* lines 72-79: the test main applies to each directory entry
\* (variant: the size test is missing)
accepts_any_size(f) ==
    /\ lower(f.ext) \in {".png", ".jpg", ".jpeg"}
    /\ f.decodable
is_source_image(f) ==
    /\ lower(f.ext) \in {".png", ".jpg", ".jpeg"}
    /\ f.decodable
    /\ f.size = <<1024, 1024>>

\* line 32: os.path.splitext(os.path.basename(source_path))[0]
base_name(source) == source.base
\* lines 39, 45: os.path.join(output_dir, f"{base_name}_{n}x{n}.png")
output_path(source, n) == <<base_name(source), n>>

Write(source, n) == [path |-> output_path(source, n), src |-> source, size |-> <<n, n>>]

\* lines 12-53.  fault names the call that raises, if any.  The size test of
\* line 24 only prints a warning.
create_web_icons(source, fault) ==
    IF ~source.decodable \/ fault = "open" THEN [ok |-> FALSE, writes |-> <<>>]
    ELSE IF fault = "save57" THEN [ok |-> FALSE, writes |-> <<>>]
    ELSE IF fault = "save512" THEN [ok |-> FALSE, writes |-> <<Write(source, 57)>>]
    ELSE [ok |-> TRUE, writes |-> <<Write(source, 57), Write(source, 512)>>]

\* a file written to a path replaces the file that was there
RECURSIVE Store(_, _)
Store(dir, ws) ==
    IF ws = <<>> THEN dir
    ELSE Store({o \in dir : o.path # Head(ws).path} \cup {Head(ws)}, Tail(ws))

WebIdle ==
    /\ web_pc = "idle" /\ source_dir_exists = FALSE /\ source_dir = {}
    /\ source_images = <<>>
    /\ web_idx = 0 /\ web_success = 0 /\ outputs = {} /\ log = <<>>

WebInit ==
    /\ web_pc = "start" /\ source_images = <<>>
    /\ web_idx = 0 /\ web_success = 0 /\ outputs = {} /\ log = <<>>
    /\ \/ source_dir_exists = FALSE /\ source_dir = {}
       \/ source_dir_exists = TRUE /\ source_dir \in {d \in Directories : WellNamed(d)}

\* lines 65-67
WebNoSourceDir ==
    /\ UNCHANGED <<shot_vars, icon_vars>>
    /\ web_pc = "start" /\ ~source_dir_exists
    /\ web_pc' = "exit_1"
    /\ UNCHANGED <<source_dir_exists, source_dir, source_images, web_idx, web_success,
                   outputs, log>>

\* lines 69-89: os.listdir returns the entries in any order
WebScan ==
    /\ UNCHANGED <<shot_vars, icon_vars>>
    /\ web_pc = "start" /\ source_dir_exists
    /\ source_images' \in Perms({f \in source_dir : is_source_image(f)})
    /\ web_pc' = IF source_images' = <<>> THEN "exit_1" ELSE "process"
    /\ UNCHANGED <<source_dir_exists, source_dir, web_idx, web_success, outputs, log>>

\* lines 92-94: one iteration
WebProcess ==
    /\ UNCHANGED <<shot_vars, icon_vars>>
    /\ web_pc = "process" /\ web_idx < Len(source_images)
    /\ \E fault \in {"none", "open", "save57", "save512"} :
         LET r == create_web_icons(source_images[web_idx + 1], fault) IN
         /\ outputs' = Store(outputs, r.writes)
         /\ log' = log \o r.writes
         /\ web_success' = IF r.ok THEN web_success + 1 ELSE web_success
    /\ web_idx' = web_idx + 1
    /\ UNCHANGED <<web_pc, source_dir_exists, source_dir, source_images>>

\* line 96
WebFinish ==
    /\ UNCHANGED <<shot_vars, icon_vars>>
    /\ web_pc = "process" /\ web_idx = Len(source_images)
    /\ web_pc' = "done"
    /\ UNCHANGED <<source_dir_exists, source_dir, source_images, web_idx, web_success,
                   outputs, log>>

\* ---------------------------------------------------------------- claims
WriteCount(source, n) ==
    Cardinality({i \in 1..Len(log) : log[i].src = source /\ log[i].size = <<n, n>>})
Succeeded(source) == WriteCount(source, 57) >= 1 /\ WriteCount(source, 512) >= 1
Processed == {source_images[k] : k \in 1..web_idx}

\* C4: output files are derived only from source images of exactly 1024x1024; an
\* image of any other size is skipped and is not counted among the processed
\* images; a successfully processed image is written exactly once at 57x57 and
\* once at 512x512; the success count is the number of 1024x1024 images
\* processed successfully (one 1024x1024 file and one 500x500 file: two output
\* files, success count 1).
C4_OnlyFrom1024 ==
    /\ \A i \in 1..Len(log) : log[i].src \in source_dir /\ log[i].src.size = <<1024, 1024>>
    /\ \A o \in outputs : o.src.size = <<1024, 1024>> /\ o.size \in {<<57, 57>>, <<512, 512>>}
    /\ \A k \in 1..Len(source_images) : source_images[k].size = <<1024, 1024>>
    /\ web_pc \in {"process", "done"} =>
          \A f \in source_dir :
             (f.size = <<1024, 1024>> /\ lower(f.ext) # ".txt")
                <=> (\E k \in 1..Len(source_images) : source_images[k] = f)
    /\ \A s \in Processed :
          Succeeded(s) => WriteCount(s, 57) = 1 /\ WriteCount(s, 512) = 1
    /\ web_success = Cardinality({s \in Processed : Succeeded(s)})
    /\ web_success <= Len(source_images)
    /\ (web_pc = "done" /\ Len(source_images) = 1 /\ web_success = 1) =>
          /\ Cardinality(outputs) = 2
          /\ {o.size : o \in outputs} = {<<57, 57>>, <<512, 512>>}

C4_Witness ==
    /\ web_pc = "done" /\ web_success = 1
    /\ Cardinality(source_dir) = 2
    /\ \E f \in source_dir : f.size = <<500, 500>> /\ f.ext = ".png"
    /\ \E f \in source_dir : f.size = <<1024, 1024>> /\ f.ext = ".png"
    /\ Cardinality(outputs) = 2

\* C10: two distinct source images never write to the same output path, also when
\* they share a base name and differ in extension, so N images, all processed
\* successfully, leave exactly 2*N output files.
C10_NoSharedOutputPath ==
    /\ \A i, j \in 1..Len(log) : log[i].src # log[j].src => log[i].path # log[j].path
    /\ (web_pc = "done" /\ web_success = Len(source_images)) =>
          Cardinality(outputs) = 2 * web_success

(*************************************************************************)
(*                           Specifications                              *)
(*************************************************************************)
InitShot == ShotInit /\ IconIdle /\ WebIdle
NextShot ==
    \/ CallFit
    \/ MainSample
    \/ MainNoInput
    \/ MainMissingFile
    \/ MainBegin
    \/ MainCombination
    \/ MainFinish
SpecShot == InitShot /\ [][NextShot]_vars

InitIcon == IconInit /\ ShotIdle /\ WebIdle
NextIcon ==
    \/ CallPaint
    \/ IconMainNoDir
    \/ IconMainBegin
    \/ IconMainPaint
    \/ IconMainFinish
SpecIcon == InitIcon /\ [][NextIcon]_vars

InitWeb == WebInit /\ ShotIdle /\ IconIdle
NextWeb ==
    \/ WebNoSourceDir
    \/ WebScan
    \/ WebProcess
    \/ WebFinish
SpecWeb == InitWeb /\ [][NextWeb]_vars

=============================================================================
